---- MODULE Spec2Model ----
(***************************************************************************)
(* A model of OpenMiChroM/CndbTools.py: the cndbTools object, the legacy   *)
(* (.ndb) parser and container writer ndb2cndb, the loader load, the       *)
(* coordinate extractor xyz and the radial density profile compute_RDP.    *)
(*                                                                         *)
(* A container (an h5py file) is a function from its string keys to the    *)
(* arrays stored under them.  A legacy line is a record of the fields the  *)
(* parser slices out of it: entry = line[0:6] as a sequence of characters, *)
(* subtype = line[16:18], pos = the three floats of line[40:66], and       *)
(* info = line.split().                                                    *)
(***************************************************************************)
EXTENDS Integers, Sequences, FiniteSets, TLC

VARIABLES
    ndbDisk,       \* the legacy files on disk: base name of each <base>.ndb -> its lines
    disk,          \* the containers on disk: base name of each <base>.cndb -> container
    self,          \* the attributes set on the cndbTools object: name -> value
    xyz_defaults,  \* the default value of xyz's parameter frames (one list per function)
    frames_arg,    \* the list object the last xyz call received as frames, after the call
    call,          \* the last public call: its operation and the arguments as passed
    ret,           \* what that call returned or raised
    unclosed,      \* the handles that call opened and had not closed when it exited
    ps,            \* the locals of a running ndb2cndb (line-by-line view)
    read           \* the lines that running ndb2cndb has read so far

vars == <<ndbDisk, disk, self, xyz_defaults, frames_arg, call, ret, unclosed, ps, read>>

(***************************************************************************)
(* Bounds of the model.                                                    *)
(***************************************************************************)
MaxFrames == 2      \* MODEL/ENDMDL pairs of a generated legacy file
MaxBeads == 2       \* CHROM records per frame of a generated legacy file
MaxLines == 6       \* lines read by the line-by-line parser
MaxSel == 3         \* length of a bead list given to xyz
MaxBins == 2        \* shells of compute_RDP
MaxShellWidth == 2  \* shell width radius/bins of compute_RDP
MaxCoord == 2       \* largest bead coordinate given to compute_RDP
MaxRdpBeads == 2    \* beads per frame given to compute_RDP
MaxRdpFrames == 2   \* frames given to compute_RDP

\* None as the stop of a frame range; no integer the model passes equals it
None == -1

Bases == {"a", "b"}

(***************************************************************************)
(* Strings and tables.                                                     *)
(***************************************************************************)
Digits == <<"0", "1", "2", "3", "4", "5", "6", "7", "8", "9">>

RECURSIVE Str(_)
Str(i) == IF i < Len(Digits) THEN Digits[i + 1]
          ELSE Str(i \div Len(Digits)) \o Digits[(i % Len(Digits)) + 1]

\* sub in s, for sequences of characters
Contains(sub, s) ==
    \E i \in 0..(Len(s) - Len(sub)) : SubSeq(s, i + 1, i + Len(sub)) = sub

TagMODEL == <<"M", "O", "D", "E", "L">>
TagCHROM == <<"C", "H", "R", "O", "M">>
TagENDMDL == <<"E", "N", "D", "M", "D", "L">>
TagLOOPS == <<"L", "O", "O", "P", "S">>

EntryMODEL == <<"M", "O", "D", "E", "L", " ">>
EntryCHROM == <<"C", "H", "R", "O", "M", " ">>
EntryENDMDL == <<"E", "N", "D", "M", "D", "L">>
EntryLOOPS == <<"L", "O", "O", "P", "S", " ">>
EntryREMARK == <<"R", "E", "M", "A", "R", "K">>

\* cndbTools.Type_conversion and its inverse
Type_conversion ==
    ("A1" :> 0) @@ ("A2" :> 1) @@ ("B1" :> 2) @@ ("B2" :> 3) @@ ("B3" :> 4)
    @@ ("B4" :> 5) @@ ("NA" :> 6)

Type_conversionInv ==
    [c \in {Type_conversion[l] : l \in DOMAIN Type_conversion} |->
        CHOOSE l \in DOMAIN Type_conversion : Type_conversion[l] = c]

\* the local Type_conversion of ndb2cndb
Type_conversion_ndb ==
    ("A1" :> 0) @@ ("A2" :> 1) @@ ("B1" :> 2) @@ ("B2" :> 3) @@ ("B3" :> 4)
    @@ ("B4" :> 5) @@ ("UN" :> 6)

(***************************************************************************)
(* Legacy lines.                                                           *)
(***************************************************************************)
Line(entry, subtype, pos, info) ==
    [entry |-> entry, subtype |-> subtype, pos |-> pos, info |-> info]

ModelLine(n) == Line(EntryMODEL, "  ", <<0, 0, 0>>, <<"MODEL", n>>)
ChromLine(subtype, pos) == Line(EntryCHROM, subtype, pos, <<"CHROM">>)
EndmdlLine == Line(EntryENDMDL, "  ", <<0, 0, 0>>, <<"ENDMDL">>)
LoopsLine(i, j) == Line(EntryLOOPS, "  ", <<0, 0, 0>>, <<"LOOPS", i, j>>)
RemarkLine == Line(EntryREMARK, "  ", <<0, 0, 0>>, <<"REMARK">>)

(***************************************************************************)
(* ndb2cndb, one line at a time.  status is "running" inside the loop,     *)
(* "raised" once a statement raised, "returned" after the return.          *)
(***************************************************************************)
EmptyContainer == << >>

\* the locals after lines 101-113: both files opened, the container truncated
ParserStart ==
    [cndbf |-> EmptyContainer, open |-> {"cndbf", "ndbfile"},
     loop |-> 0, types |-> << >>, types_bool |-> TRUE, loop_list |-> << >>,
     x |-> << >>, y |-> << >>, z |-> << >>, frame |-> 0, status |-> "running"]

Raise(s) == [s EXCEPT !.status = "raised"]

\* np.vstack([x,y,z]).T
Positions(x, y, z) == [i \in 1..Len(x) |-> <<x[i], y[i], z[i]>>]

\* cndbf[key] = value: h5py creates a dataset and refuses an existing name
CanCreate(cndbf, key) == key \notin DOMAIN cndbf
Create(cndbf, key, value) == cndbf @@ (key :> value)

\* Endmdl without lines 144-146: the buffers are not cleared
NoClearEndmdl(s) ==
    LET known == \A i \in 1..Len(s.types) : s.types[i] \in DOMAIN Type_conversion_ndb
        typelist == [i \in 1..Len(s.types) |-> Type_conversion_ndb[s.types[i]]]
        s1 == IF s.types_bool
              THEN [s EXCEPT !.cndbf = Create(@, "types", typelist), !.types_bool = FALSE]
              ELSE s
    IN  IF s.types_bool /\ ~known THEN Raise(s)
        ELSE IF ~CanCreate(s1.cndbf, Str(s.frame)) THEN Raise(s1)
        ELSE [s1 EXCEPT !.cndbf = Create(@, Str(s.frame), Positions(s.x, s.y, s.z))]

\* lines 136-146
Endmdl(s) ==
    LET known == \A i \in 1..Len(s.types) : s.types[i] \in DOMAIN Type_conversion_ndb
        typelist == [i \in 1..Len(s.types) |-> Type_conversion_ndb[s.types[i]]]
        s1 == IF s.types_bool
              THEN [s EXCEPT !.cndbf = Create(@, "types", typelist), !.types_bool = FALSE]
              ELSE s
    IN  IF s.types_bool /\ ~known THEN Raise(s)
        ELSE IF ~CanCreate(s1.cndbf, Str(s.frame)) THEN Raise(s1)
        ELSE [s1 EXCEPT !.cndbf = Create(@, Str(s.frame), Positions(s.x, s.y, s.z)),
                        !.x = << >>, !.y = << >>, !.z = << >>]

\* the body of the loop, lines 117-150
ParseLine(s, line) ==
    IF Contains(TagMODEL, line.entry) THEN [s EXCEPT !.frame = @ + 1]
    ELSE IF Contains(TagCHROM, line.entry)
    THEN [s EXCEPT !.types = Append(@, line.subtype),
                   !.x = Append(@, line.pos[1]),
                   !.y = Append(@, line.pos[2]),
                   !.z = Append(@, line.pos[3])]
    ELSE IF Contains(TagENDMDL, line.entry) THEN Endmdl(s)
    ELSE IF Contains(TagLOOPS, line.entry)
    THEN IF Len(line.info) < 3 THEN Raise(s)
         ELSE [s EXCEPT !.loop_list = Append(@, <<line.info[2], line.info[3]>>),
                        !.loop = @ + 1]
    ELSE s

\* lines 152-156
ParseEnd(s) ==
    [s EXCEPT !.cndbf = IF s.loop > 0 THEN Create(@, "loops", s.loop_list) ELSE @,
              !.open = @ \ {"cndbf"},
              !.status = "returned"]

\* the whole loop over the lines of a file, stopping where a line raises
RECURSIVE ParseAll(_, _)
ParseAll(s, lines) ==
    IF s.status = "raised" \/ lines = << >> THEN s
    ELSE ParseAll(ParseLine(s, Head(lines)), Tail(lines))

(***************************************************************************)
(* The line-by-line specification of the parser.                           *)
(***************************************************************************)
ParseLabels == {"B1", "XX"}
ParsePositions == {<<1, 2, 3>>, <<4, 5, 6>>}

ParseLines ==
    {ModelLine(1), EndmdlLine, LoopsLine(1, 2), RemarkLine}
    \cup {ChromLine(l, p) : l \in ParseLabels, p \in ParsePositions}

NoCall == [op |-> "none"]
NoRet == [status |-> "none"]
NoParse == [status |-> "idle"]
NoFiles == << >>
\* the object after __init__: none of load's attributes is set
NewObject == << >>
FramesDefault == <<1, None, 1>>

InitParse ==
    /\ ndbDisk = NoFiles
    /\ disk = NoFiles
    /\ self = NewObject
    /\ xyz_defaults = FramesDefault
    /\ frames_arg = << >>
    /\ call = NoCall
    /\ ret = NoRet
    /\ unclosed = {}
    /\ ps = ParserStart
    /\ read = << >>

ReadLine ==
    /\ ps.status = "running"
    /\ Len(read) < MaxLines
    /\ \E line \in ParseLines :
        /\ ps' = ParseLine(ps, line)
        /\ read' = Append(read, line)
    /\ UNCHANGED <<ndbDisk, disk, self, xyz_defaults, frames_arg, call, ret, unclosed>>

EndOfFile ==
    /\ ps.status = "running"
    /\ ps' = ParseEnd(ps)
    /\ UNCHANGED <<ndbDisk, disk, self, xyz_defaults, frames_arg, call, ret, unclosed, read>>

NextParse == ReadLine \/ EndOfFile

SpecParse == InitParse /\ [][NextParse]_vars

(***************************************************************************)
(* Legacy files of M MODEL/ENDMDL pairs with the same beads in each.       *)
(***************************************************************************)
LabelList == <<"A1", "A2", "B1", "B2", "B3", "B4", "UN", "NA", "XX">>

\* n labels, taken from LabelList in a cycle starting after its k-th entry
GenLabels(k, n) == [i \in 1..n |-> LabelList[((k + i - 1) % Len(LabelList)) + 1]]

\* the coordinate of bead b (from 0) on axis a (from 0) in frame m (from 1):
\* all the coordinates of a file differ
Coord(m, b, a) == (100 * m) + (10 * b) + a

GenFrame(m, labels) ==
    <<ModelLine(m)>>
    \o [b \in 1..Len(labels) |->
            ChromLine(labels[b], <<Coord(m, b - 1, 0), Coord(m, b - 1, 1), Coord(m, b - 1, 2)>>)]
    \o <<EndmdlLine>>

RECURSIVE GenFrames(_, _, _)
GenFrames(m, M, labels) ==
    IF m > M THEN << >> ELSE GenFrame(m, labels) \o GenFrames(m + 1, M, labels)

GenFile(M, labels, nloops) ==
    <<RemarkLine>> \o GenFrames(1, M, labels) \o [i \in 1..nloops |-> LoopsLine(i, i + 1)]

NdbFiles ==
    {GenFile(M, GenLabels(k, n), nl) :
        M \in 1..MaxFrames, k \in 0..(Len(LabelList) - 1), n \in 1..MaxBeads,
        nl \in {0, 1}}

\* the file a second path may hold
FileB == GenFile(MaxFrames, GenLabels(0, 1), 0)

(***************************************************************************)
(* ndb2cndb as one call.  What a raise leaves in the container file is the *)
(* keys created before it: the file was truncated at line 101 and is       *)
(* never closed.                                                           *)
(***************************************************************************)
Put(files, base, content) == (base :> content) @@ files

\* lines 98-156 on the legacy files ndbs and the container files files
Ndb2cndbOn(ndbs, files, base) ==
    IF base \notin DOMAIN ndbs
    THEN \* line 101 created the container, line 103 raises
         [disk |-> Put(files, base, EmptyContainer), status |-> "raised",
          value |-> "FileNotFoundError", unclosed |-> {"cndbf"}]
    ELSE LET s == ParseAll(ParserStart, ndbs[base])
         IN  IF s.status = "raised"
             THEN [disk |-> Put(files, base, s.cndbf), status |-> "raised",
                   value |-> "KeyError", unclosed |-> s.open]
             ELSE [disk |-> Put(files, base, ParseEnd(s).cndbf), status |-> "returned",
                   value |-> base, unclosed |-> ParseEnd(s).open]

Ndb2cndbRun(base) == Ndb2cndbOn(ndbDisk, disk, base)

(***************************************************************************)
(* load                                                                    *)
(***************************************************************************)
SetAttr(obj, name, value) == (name :> value) @@ obj
HasAttr(obj, name) == name \in DOMAIN obj

\* line 45 with the -1 dropped to -2, as if 'loops' were always stored
LoadNframesLessTwo(container) == Cardinality(DOMAIN container) - 2

\* line 45
LoadNframes(container) == Cardinality(DOMAIN container) - 1

\* line 42: the indices (from 0) of the beads of type tt, ascending
IndicesOf(ChromSeq, tt) ==
    SelectSeq([i \in 1..Len(ChromSeq) |-> i - 1], LAMBDA i : ChromSeq[i + 1] = tt)

\* lines 33-47 on the container <base>.cndb; obj is the object before the call
LoadContainer(obj, files, base) ==
    IF base \notin DOMAIN files
    THEN [self |-> obj, status |-> "raised", value |-> "OSError", unclosed |-> {}]
    ELSE LET container == files[base]
             o1 == SetAttr(obj, "cndb", base)
         IN  IF "types" \notin DOMAIN container
             THEN [self |-> o1, status |-> "raised", value |-> "KeyError",
                   unclosed |-> {"self.cndb"}]
             ELSE LET numbers == container["types"]
                      o2 == SetAttr(o1, "ChromSeq_numbers", numbers)
                  IN  IF \E i \in 1..Len(numbers) : numbers[i] \notin DOMAIN Type_conversionInv
                      THEN [self |-> o2, status |-> "raised", value |-> "KeyError",
                            unclosed |-> {"self.cndb"}]
                      ELSE LET ChromSeq == [i \in 1..Len(numbers) |-> Type_conversionInv[numbers[i]]]
                               unique == {ChromSeq[i] : i \in 1..Len(ChromSeq)}
                               o3 == SetAttr(o2, "ChromSeq", ChromSeq)
                               o4 == SetAttr(o3, "uniqueChromSeq", unique)
                               o5 == SetAttr(o4, "dictChromSeq",
                                             [tt \in unique |-> IndicesOf(ChromSeq, tt)])
                               o6 == SetAttr(o5, "Nbeads", Len(numbers))
                               o7 == SetAttr(o6, "Nframes", LoadNframes(container))
                           IN  [self |-> o7, status |-> "returned", value |-> "self",
                                unclosed |-> {"self.cndb"}]

\* filename is <base><ext>; os.path.splitext gives the two parts
load(base, ext) ==
    /\ call' = [op |-> "load", base |-> base, ext |-> ext]
    /\ IF ext = ".ndb"
       THEN LET c == Ndb2cndbRun(base)
            IN  IF c.status = "raised"
                THEN /\ disk' = c.disk
                     /\ self' = self
                     /\ ret' = [status |-> "raised", value |-> c.value]
                     /\ unclosed' = c.unclosed
                ELSE LET l == LoadContainer(self, c.disk, base)
                     IN  /\ disk' = c.disk
                         /\ self' = l.self
                         /\ ret' = [status |-> l.status, value |-> l.value]
                         /\ unclosed' = c.unclosed \cup l.unclosed
       ELSE LET l == LoadContainer(self, disk, base)
            IN  /\ disk' = disk
                /\ self' = l.self
                /\ ret' = [status |-> l.status, value |-> l.value]
                /\ unclosed' = l.unclosed
    /\ UNCHANGED <<ndbDisk, xyz_defaults, frames_arg, ps, read>>

Load == \E base \in Bases, ext \in {".ndb", ".cndb"} : load(base, ext)

ndb2cndb(base) ==
    LET c == Ndb2cndbRun(base)
    IN  /\ call' = [op |-> "ndb2cndb", base |-> base]
        /\ disk' = c.disk
        /\ ret' = [status |-> c.status, value |-> c.value]
        /\ unclosed' = c.unclosed
        /\ UNCHANGED <<ndbDisk, self, xyz_defaults, frames_arg, ps, read>>

Ndb2cndb == \E base \in Bases : ndb2cndb(base)

(***************************************************************************)
(* xyz                                                                     *)
(***************************************************************************)
AllBeads == [all |-> TRUE, list |-> << >>]
Beads(list) == [all |-> FALSE, list |-> list]

\* range(start, stop, step) for step > 0
Range(start, stop, step) ==
    LET n == IF stop > start THEN (stop - start + step - 1) \div step ELSE 0
    IN  [k \in 1..n |-> start + ((k - 1) * step)]

\* np.take along an axis with indices sorted first
SortedTake(arr, indices) ==
    LET sorted == SortSeq(indices, LAMBDA a, b : a < b)
    IN  [k \in 1..Len(sorted) |-> arr[sorted[k] + 1]]

\* np.take(arr, indices, axis=0), for indices from 0 and in range
Take(arr, indices) == [k \in 1..Len(indices) |-> arr[indices[k] + 1]]

InRange(len, indices) == \A k \in 1..Len(indices) : indices[k] \in 0..(len - 1)

\* lines 66-78: fr is the list bound to frames when the call starts
XyzRun(fr, beadSelection, XYZ) ==
    IF beadSelection.all /\ ~HasAttr(self, "Nbeads")
    THEN [frames |-> fr, status |-> "raised", value |-> "AttributeError"]
    ELSE IF fr[2] = None /\ ~HasAttr(self, "Nframes")
    THEN [frames |-> fr, status |-> "raised", value |-> "AttributeError"]
    ELSE
      LET selection == IF beadSelection.all THEN [i \in 1..self["Nbeads"] |-> i - 1]
                       ELSE beadSelection.list
          fr1 == IF fr[2] = None THEN [fr EXCEPT ![2] = self["Nframes"]] ELSE fr
          is == Range(fr1[1], fr1[2], fr1[3])
          Rows(i) == disk[self["cndb"]][Str(i)]
          Stored(i) == Str(i) \in DOMAIN disk[self["cndb"]]
          RowsOk(i) == InRange(Len(Rows(i)), selection)
          ColsOk(i) == \A b \in 1..Len(selection) : InRange(Len(Rows(i)[selection[b] + 1]), XYZ)
          Frame(i) == LET rows == Take(Rows(i), selection)
                      IN  [b \in 1..Len(rows) |-> Take(rows[b], XYZ)]
      IN  IF is # << >> /\ ~HasAttr(self, "cndb")
          THEN [frames |-> fr1, status |-> "raised", value |-> "AttributeError"]
          ELSE IF \E k \in 1..Len(is) : ~Stored(is[k])
          THEN [frames |-> fr1, status |-> "raised", value |-> "KeyError"]
          ELSE IF \E k \in 1..Len(is) : ~RowsOk(is[k]) \/ ~ColsOk(is[k])
          THEN [frames |-> fr1, status |-> "raised", value |-> "IndexError"]
          ELSE [frames |-> fr1, status |-> "returned",
                value |-> [k \in 1..Len(is) |-> Frame(is[k])]]

\* a call xyz(...): default = TRUE when frames is omitted, else frames is a
\* list of the caller's
xyz(default, frames, beadSelection, XYZ) ==
    LET fr == IF default THEN xyz_defaults ELSE frames
        r == XyzRun(fr, beadSelection, XYZ)
    IN  /\ call' = [op |-> "xyz", default |-> default, frames |-> fr,
                    beadSelection |-> beadSelection, XYZ |-> XYZ]
        /\ xyz_defaults' = IF default THEN r.frames ELSE xyz_defaults
        /\ frames_arg' = r.frames
        /\ ret' = [status |-> r.status, value |-> r.value]
        /\ unclosed' = {}
        /\ UNCHANGED <<ndbDisk, disk, self, ps, read>>

AllAxes == <<0, 1, 2>>

\* xyz() and xyz(frames=[start, None, 1]) on all beads and axes
Xyz ==
    \/ xyz(TRUE, << >>, AllBeads, AllAxes)
    \/ \E start \in 1..MaxFrames : xyz(FALSE, <<start, None, 1>>, AllBeads, AllAxes)

(***************************************************************************)
(* The object's life: any sequence of load, ndb2cndb and xyz calls.        *)
(***************************************************************************)
Init ==
    /\ \E fa \in NdbFiles :
         \/ ndbDisk = ("a" :> fa)
         \/ ndbDisk = ("a" :> fa) @@ ("b" :> FileB)
    /\ disk = NoFiles
    /\ self = NewObject
    /\ xyz_defaults = FramesDefault
    /\ frames_arg = << >>
    /\ call = NoCall
    /\ ret = NoRet
    /\ unclosed = {}
    /\ ps = NoParse
    /\ read = << >>

Next == Load \/ Ndb2cndb \/ Xyz

Spec == Init /\ [][Next]_vars

(***************************************************************************)
(* xyz with any frame range, bead list and axis list, on trajectories of   *)
(* MaxFrames frames and MaxBeads + 1 beads, one of them with a LOOPS line. *)
(***************************************************************************)
Seqs(S, n) == UNION {[1..k -> S] : k \in 1..n}

BeadLists == Seqs(0..MaxBeads, MaxSel)
AxisLists == {s \in Seqs(0..2, 3) : \A i, j \in 1..Len(s) : s[i] = s[j] => i = j}

SelFiles ==
    ("a" :> GenFile(MaxFrames, GenLabels(0, MaxBeads + 1), 0))
    @@ ("b" :> GenFile(MaxFrames, GenLabels(0, MaxBeads + 1), 1))

\* the object has loaded <base>.ndb, and the caller has its arguments ready
InitSel ==
    /\ ndbDisk = SelFiles
    /\ \E base \in Bases :
         LET c == Ndb2cndbOn(SelFiles, NoFiles, base)
             l == LoadContainer(NewObject, c.disk, base)
         IN  /\ disk = c.disk
             /\ self = l.self
             /\ unclosed = c.unclosed \cup l.unclosed
    /\ xyz_defaults = FramesDefault
    /\ \E start \in 1..2, stop \in {None} \cup (1..(MaxFrames + 1)), step \in 1..2,
          sel \in {AllBeads} \cup {Beads(l) : l \in BeadLists}, ax \in AxisLists :
         /\ frames_arg = <<start, stop, step>>
         /\ call = [op |-> "xyz", default |-> FALSE, frames |-> <<start, stop, step>>,
                    beadSelection |-> sel, XYZ |-> ax]
    /\ ret = NoRet
    /\ ps = NoParse
    /\ read = << >>

\* the caller makes the call
XyzSel ==
    /\ call.op = "xyz"
    /\ ret = NoRet
    /\ xyz(call.default, call.frames, call.beadSelection, call.XYZ)

NextSel == XyzSel

SpecSel == InitSel /\ [][NextSel]_vars

(***************************************************************************)
(* compute_RDP.  Coordinates, radius/bins and bins are integers, so every  *)
(* shell boundary is an integer.  With n beads, n times the centroid is    *)
(* the integer vector of the coordinate sums, and a distance d to the      *)
(* centroid is compared with a radius r by comparing (n*d)^2 with (n*r)^2. *)
(* A density is kept as a fraction num/den in units of 1/(4*pi).           *)
(***************************************************************************)
RECURSIVE SumSeq(_)
SumSeq(s) == IF s = << >> THEN 0 ELSE Head(s) + SumSeq(Tail(s))

\* n * np.mean(frame, axis=0), for the n beads of frame
CentroidTimesN(frame) ==
    [c \in 1..3 |-> SumSeq([i \in 1..Len(frame) |-> frame[i][c]])]

\* (n * calcDist(a, ref))^2 for ref = refN / n
calcDistSqN(a, refN, n) ==
    SumSeq([c \in 1..3 |-> ((n * a[c]) - refN[c]) * ((n * a[c]) - refN[c])])

\* lines 214-223: the shell counts of one frame before line 225 divides them;
\* g_r has int(R/dr) entries and k runs while raddi = (k+1)*dr <= R
calc_gr_counts(frame, R, dr) ==
    LET n == Len(frame)
        refN == CentroidTimesN(frame)
        dd == [i \in 1..n |-> calcDistSqN(frame[i], refN, n)]
        In(i, raddi) == /\ dd[i] >= (n * raddi) * (n * raddi)
                        /\ dd[i] < (n * (raddi + dr)) * (n * (raddi + dr))
    IN  [k \in 1..(R \div dr) |-> Cardinality({i \in 1..n : In(i, k * dr)})]

\* lines 230-245
compute_RDP_run(xyz_, radius, bins) ==
    LET deltaR == radius \div bins
        n_frames == Len(xyz_)
        counts == [f \in 1..n_frames |-> calc_gr_counts(xyz_[f], radius, deltaR)]
        \* line 225 divides shell k by 4*pi*dr*raddi**2, line 245 by n_frames
        g_rdf == [k \in 1..bins |->
                    [num |-> SumSeq([f \in 1..n_frames |-> counts[f][k]]),
                     den |-> n_frames * deltaR * (k * deltaR) * (k * deltaR)]]
        Rx == [k \in 1..(((radius + deltaR) + deltaR - 1) \div deltaR) |-> (k - 1) * deltaR]
    IN  [Rx |-> Rx, g_rdf |-> g_rdf]

RdpPoints == {<<x, y, 0>> : x \in 0..MaxCoord, y \in {0, 1}}
RdpTensors ==
    UNION {[1..F -> [1..N -> RdpPoints]] : F \in 1..MaxRdpFrames, N \in 1..MaxRdpBeads}

InitRDP ==
    /\ ndbDisk = NoFiles
    /\ disk = NoFiles
    /\ self = NewObject
    /\ xyz_defaults = FramesDefault
    /\ frames_arg = << >>
    /\ \E t \in RdpTensors, bins \in 1..MaxBins, dr \in 1..MaxShellWidth :
         call = [op |-> "compute_RDP", xyz |-> t, radius |-> bins * dr, bins |-> bins]
    /\ ret = NoRet
    /\ unclosed = {}
    /\ ps = NoParse
    /\ read = << >>

compute_RDP ==
    /\ call.op = "compute_RDP"
    /\ ret = NoRet
    /\ ret' = [status |-> "returned",
               value |-> compute_RDP_run(call.xyz, call.radius, call.bins)]
    /\ UNCHANGED <<ndbDisk, disk, self, xyz_defaults, frames_arg, call, unclosed, ps, read>>

NextRDP == compute_RDP

SpecRDP == InitRDP /\ [][NextRDP]_vars

(***************************************************************************)
(* C7: the parser state machine.                                           *)
(***************************************************************************)
IsModelLine(l) == l.entry = EntryMODEL
IsChromLine(l) == l.entry = EntryCHROM
IsEndmdlLine(l) == l.entry = EntryENDMDL

ModelsRead(p) == Cardinality({i \in 1..p : IsModelLine(read[i])})
EndmdlsRead == {i \in 1..Len(read) : IsEndmdlLine(read[i])}
PrevEndmdl(p) ==
    LET before == {i \in EndmdlsRead : i < p}
    IN  IF before = {} THEN 0 ELSE CHOOSE i \in before : \A j \in before : j <= i
FirstEndmdl == CHOOSE i \in EndmdlsRead : \A j \in EndmdlsRead : i <= j

\* the CHROM lines read strictly between positions lo and hi, in file order
ChromsBetween(lo, hi) == SelectSeq(SubSeq(read, lo + 1, hi - 1), IsChromLine)
RowsBetween(lo, hi) ==
    LET cs == ChromsBetween(lo, hi) IN [i \in 1..Len(cs) |-> cs[i].pos]
CodesBetween(lo, hi) ==
    LET cs == ChromsBetween(lo, hi)
    IN  [i \in 1..Len(cs) |-> Type_conversion_ndb[cs[i].subtype]]

\* each ENDMDL read is preceded by a MODEL read after the previous ENDMDL
EachEndmdlAfterNewModel ==
    \A p \in EndmdlsRead : \E i \in (PrevEndmdl(p) + 1)..(p - 1) : IsModelLine(read[i])

\* no label committed at the first ENDMDL is outside the parser's table
LabelsInTable ==
    \A i \in 1..Len(read) :
        (IsChromLine(read[i]) /\ (EndmdlsRead = {} \/ i < FirstEndmdl))
            => read[i].subtype \in DOMAIN Type_conversion_ndb

\* C7: while each ENDMDL follows a new MODEL, frame counts the MODEL lines read;
\* when no label is outside the table nothing raises, every ENDMDL read has
\* stored, under the frame counter it saw, the rows of the CHROM lines since the
\* previous ENDMDL in file order, the buffers hold exactly the CHROM lines read
\* since the last ENDMDL, and 'types' exists exactly from the first ENDMDL on
\* and always holds the codes of the labels read before that first ENDMDL; a
\* label outside the table makes the first ENDMDL raise and nothing is stored.
C7_ParserStateMachine ==
    (ps.status # "idle" /\ EachEndmdlAfterNewModel) =>
        /\ ps.frame = ModelsRead(Len(read))
        /\ LabelsInTable =>
            /\ ps.status # "raised"
            /\ DOMAIN ps.cndbf \ {"types", "loops"} =
                   {Str(ModelsRead(p)) : p \in EndmdlsRead}
            /\ \A p \in EndmdlsRead :
                   ps.cndbf[Str(ModelsRead(p))] = RowsBetween(PrevEndmdl(p), p)
            /\ Positions(ps.x, ps.y, ps.z) =
                   RowsBetween(PrevEndmdl(Len(read) + 1), Len(read) + 1)
            /\ ("types" \in DOMAIN ps.cndbf) = (EndmdlsRead # {})
            /\ EndmdlsRead # {} =>
                   /\ ps.cndbf["types"] = CodesBetween(0, FirstEndmdl)
                   /\ ~ps.types_bool
        /\ (~LabelsInTable /\ EndmdlsRead # {}) =>
            /\ ps.status = "raised"
            /\ ps.cndbf = EmptyContainer

\* two frames stored, the second with rows of its own, after a first frame with rows
C7_Witness ==
    /\ ps.status = "running"
    /\ EachEndmdlAfterNewModel /\ LabelsInTable
    /\ Cardinality(EndmdlsRead) = 2
    /\ \A p \in EndmdlsRead : RowsBetween(PrevEndmdl(p), p) # << >>
    /\ ps.cndbf["1"] # ps.cndbf["2"]

(***************************************************************************)
(* Claims about load, ndb2cndb and xyz, checked under Spec.                *)
(***************************************************************************)
LinesOf(base, entry) == SelectSeq(ndbDisk[base], LAMBDA l : l.entry = entry)
\* M and N of the legacy file <base>.ndb, and the label of its bead i (from 1)
FileFrames(base) == Len(LinesOf(base, EntryMODEL))
FileBeads(base) == Len(LinesOf(base, EntryCHROM)) \div FileFrames(base)
FileLabel(base, i) == LinesOf(base, EntryCHROM)[i].subtype

FrameKeys(container) == DOMAIN container \ {"types", "loops"}

LoadedNdb == call.op = "load" /\ call.ext = ".ndb" /\ ret.status = "returned"

\* the object holds a trajectory that load read completely
Loaded ==
    /\ HasAttr(self, "cndb") /\ HasAttr(self, "Nframes") /\ HasAttr(self, "Nbeads")
    /\ self["cndb"] \in DOMAIN disk
    /\ "types" \in DOMAIN disk[self["cndb"]]
    /\ self["Nbeads"] = Len(disk[self["cndb"]]["types"])
    /\ self["Nframes"] = Cardinality(DOMAIN disk[self["cndb"]]) - 1

\* C1: after load() of a legacy file of M MODEL/ENDMDL pairs with N CHROM
\* lines each, with or without LOOPS lines, the container holds the frame keys
\* '1'..'M' and 'types', and the object reports Nframes = M and Nbeads = N.
C1_RoundTrip ==
    LoadedNdb =>
        /\ FrameKeys(disk[call.base]) = {Str(m) : m \in 1..FileFrames(call.base)}
        /\ "types" \in DOMAIN disk[call.base]
        /\ self["Nframes"] = FileFrames(call.base)
        /\ self["Nbeads"] = FileBeads(call.base)

\* C2: after load() of a legacy file, every bead's decoded label (ChromSeq) is
\* the label its CHROM line carried.
C2_TypeRoundTrip ==
    LoadedNdb =>
        /\ Len(self["ChromSeq"]) = FileBeads(call.base)
        /\ \A i \in 1..FileBeads(call.base) : self["ChromSeq"][i] = FileLabel(call.base, i)

\* C3: xyz() with the default frames [1, None, 1] on a loaded trajectory of F
\* stored frames takes F as the stop and returns the F stored frames 1..F in
\* ascending order.
C3_DefaultCoversAllFrames ==
    (call.op = "xyz" /\ call.default /\ call.frames = FramesDefault /\ Loaded) =>
        LET container == disk[self["cndb"]]
            F == Cardinality(FrameKeys(container))
        IN  /\ frames_arg[2] = F
            /\ ret.status = "returned"
            /\ Len(ret.value) = F
            /\ \A f \in 1..F : ret.value[f] = container[Str(f)]

\* C5: a load() or ndb2cndb() call that raises leaves the files on disk as they
\* were: no new, truncated or half-written container.
C5_FailsAtomically ==
    [][(call'.op \in {"load", "ndb2cndb"} /\ ret'.status = "raised") => disk' = disk]_vars

\* C8: when a call exits, by return or by raise, every handle it opened has
\* been closed.
C8_HandlesReleased == unclosed = {}

\* C9 as written: with a 'loops' key next to 'types' and M frame keys, load()
\* reports fewer frames than are stored.
C9_Undercount ==
    (call.op = "load" /\ ret.status = "returned" /\ "loops" \in DOMAIN disk[self["cndb"]]) =>
        self["Nframes"] < Cardinality(FrameKeys(disk[self["cndb"]]))

\* C9 as amended: load() reports the number of stored keys less one; with a
\* 'loops' key next to 'types' and M frame keys that is M + 1, one more than
\* the frames stored.
C9_Overcount ==
    (call.op = "load" /\ ret.status = "returned") =>
        LET container == disk[self["cndb"]]
        IN  /\ self["Nframes"] = Cardinality(DOMAIN container) - 1
            /\ "loops" \in DOMAIN container =>
                   self["Nframes"] = Cardinality(FrameKeys(container)) + 1

\* load() has returned on a container holding 'types', 'loops' and MaxFrames frames
C9_Witness ==
    /\ call.op = "load" /\ ret.status = "returned"
    /\ {"types", "loops"} \subseteq DOMAIN disk[self["cndb"]]
    /\ Cardinality(FrameKeys(disk[self["cndb"]])) = MaxFrames

\* C10: a call of xyz with the stop unset returns what the same call returns
\* on a fresh object holding the same trajectory, and changes neither the
\* default of frames nor the caller's list.
C10_HistoryIndependent ==
    (call.op = "xyz" /\ (call.default \/ call.frames[2] = None)) =>
        LET passed == IF call.default THEN FramesDefault ELSE call.frames
            fresh == XyzRun(passed, call.beadSelection, call.XYZ)
        IN  /\ ret.status = fresh.status
            /\ ret.value = fresh.value
            /\ xyz_defaults = FramesDefault
            /\ ~call.default => frames_arg = call.frames

(***************************************************************************)
(* Claims about xyz's selections (SpecSel) and compute_RDP (SpecRDP).      *)
(***************************************************************************)
\* C4: a call of xyz that returns gives, for the range (start, stop, step) it
\* used, one frame for each of start, start+step, ... below stop, and the
\* element [f][b][a] of the result is the stored frame start+f*step at row
\* sel[b], column ax[a]: rows and columns come in the order asked for.
C4_SelectionOrder ==
    (call.op = "xyz" /\ ret.status = "returned") =>
        LET start == frames_arg[1]
            stop == frames_arg[2]
            step == frames_arg[3]
            sel == IF call.beadSelection.all THEN [i \in 1..self["Nbeads"] |-> i - 1]
                   ELSE call.beadSelection.list
            ax == call.XYZ
            taken == {i \in start..(stop - 1) : (i - start) % step = 0}
        IN  /\ Len(ret.value) = Cardinality(taken)
            /\ \A f \in 1..Len(ret.value) :
                 /\ Len(ret.value[f]) = Len(sel)
                 /\ \A b \in 1..Len(sel) :
                      /\ Len(ret.value[f][b]) = Len(ax)
                      /\ \A a \in 1..Len(ax) :
                           ret.value[f][b][a] =
                             disk[self["cndb"]][Str(start + ((f - 1) * step))][sel[b] + 1][ax[a] + 1]

\* xyz has returned two frames for a bead list that is not ascending and the
\* axis list [2, 0]
C4_Witness ==
    /\ call.op = "xyz" /\ ret.status = "returned"
    /\ Len(ret.value) >= 2
    /\ ~call.beadSelection.all
    /\ \E i \in 1..(Len(call.beadSelection.list) - 1) :
         call.beadSelection.list[i] > call.beadSelection.list[i + 1]
    /\ call.XYZ = <<2, 0>>

\* the beads of frame at a distance d from its centroid with lo <= d < hi
BeadsInShell(frame, lo, hi) ==
    LET n == Len(frame)
        refN == CentroidTimesN(frame)
    IN  {i \in 1..n : /\ calcDistSqN(frame[i], refN, n) >= (n * lo) * (n * lo)
                      /\ calcDistSqN(frame[i], refN, n) < (n * hi) * (n * hi)}

\* C6: before the volume normalisation, shell k (from 0) counts in each frame
\* the beads at a distance d from the frame's centroid with
\* k*dr <= d < (k+1)*dr; a single bead, at d = 0, is counted in shell 0.
C6_ShellRule ==
    (call.op = "compute_RDP" /\ ret.status = "returned") =>
        LET dr == call.radius \div call.bins
        IN  \A k \in 0..(call.bins - 1) :
              ret.value.g_rdf[k + 1].num =
                SumSeq([f \in 1..Len(call.xyz) |->
                          Cardinality(BeadsInShell(call.xyz[f], k * dr, (k + 1) * dr))])

====
